---- MODULE Spec2Model ----
(***************************************************************************)
(* BTC Oracle read path (web/lib/data/crypto.ts) over the crypto_metrics   *)
(* table, and the evaluation engine calculatePerformanceMetrics.           *)
(* With them: the page and its card and table components, the browser     *)
(* client module, and the write path (Forecaster, Prediction Writer) of    *)
(* scripts/etl_btc.py as the specification describes it.                   *)
(*                                                                         *)
(* Numbers.  Prices and errors are whole price units.  A nullable column   *)
(* is an option: <<>> is SQL NULL / JS null, <<v>> is the value v.         *)
(* errorPercent is the exact rational num/den (den = 0 stands for the      *)
(* JS results NaN and +-Infinity, for which every comparison `< 5` is      *)
(* false).  The PerformanceMetrics fields are fixed-point: mae and rmse in *)
(* hundredths (the code rounds to 2 decimals), accuracy in tenths of a     *)
(* percent (the code rounds to 1 decimal).  Arithmetic is exact: IEEE-754  *)
(* rounding noise of the JS doubles is outside the model.                  *)
(*                                                                         *)
(* Caching.  The read functions are wrapped in unstable_cache of           *)
(* next/cache, a library outside the repository that the unit tests        *)
(* replace by the identity.  Here too every call runs its query.           *)
(***************************************************************************)
EXTENDS Integers, Sequences, FiniteSets, TLC

VARIABLES store, resp, history, perf, env, loaded, browserClient, clients, calls, jobs, upserts

\* the browser's Supabase client module (lib/supabase/client.ts)
clientVars == <<env, loaded, browserClient, clients, calls>>

\* the runs of the write path in progress
jobVars == <<jobs, upserts>>

vars == <<store, resp, history, perf, clientVars, jobVars>>

----------------------------------------------------------------------------
(* Bounds of the model *)

\* longest history handed to calculatePerformanceMetrics
MaxHist == 3

\* most rows the crypto_metrics table holds
MaxRows == 2

\* dates are the days 1..MaxDate
MaxDate == 2

\* getPredictionHistory is called with limit in 1..MaxLimit
MaxLimit == 2

\* getCryptoMetrics and getChartData are called with days in 0..MaxDays
MaxDays == 1

\* longest closing-price series handed to the Forecaster
MaxSeries == 3

\* most calls of createBrowserClient
MaxCalls == 3

----------------------------------------------------------------------------
(* Option values and arithmetic helpers *)

None == <<>>

Some(v) == <<v>>

Abs(x) == IF x < 0 THEN -x ELSE x

\* web/.env.local with both variables set, the client module not yet called
ClientNotLoaded ==
    /\ env = [url |-> Some("https://project.supabase.co"), key |-> Some("anon-key")]
    /\ loaded = [validates |-> TRUE, supabaseUrl |-> None, supabaseAnonKey |-> None]
    /\ browserClient = None
    /\ clients = <<>>
    /\ calls = <<>>

\* no run of the write path under way
NoRuns ==
    /\ jobs = <<>>
    /\ upserts = <<>>

\* Array.prototype.reduce((sum, e) => sum + e, 0): a left fold from 0
RECURSIVE reduceSum(_)
reduceSum(s) == IF s = <<>> THEN 0 ELSE reduceSum(SubSeq(s, 1, Len(s) - 1)) + s[Len(s)]

\* Math.round(num / den) for den > 0: the nearest integer, a tie going up
MathRound(num, den) == (2 * num + den) \div (2 * den)

RECURSIVE sqrtSearch(_, _, _)
sqrtSearch(lo, hi, x) ==
    IF lo = hi THEN lo
    ELSE LET mid == (lo + hi + 1) \div 2
         IN  IF mid * mid <= x THEN sqrtSearch(mid, hi, x) ELSE sqrtSearch(lo, mid - 1, x)

\* floor(Math.sqrt(x)) for an integer 0 <= x < 2^31 (46340 = floor(sqrt(2^31 - 1)))
FloorSqrt(x) == sqrtSearch(0, IF x < 46340 THEN x ELSE 46340, x)

\* Math.round(Math.sqrt(num / den) * 100) for num >= 0, den > 0
MathRoundSqrt100(num, den) == (FloorSqrt((40000 * num) \div den) + 1) \div 2

\* Math.abs(p) < t for the rational p = num/den; false for NaN and +-Infinity
AbsLessThan(p, t) == p.den # 0 /\ Abs(p.num) < t * Abs(p.den)

----------------------------------------------------------------------------
(* calculatePerformanceMetrics: web/lib/data/crypto.ts 164-185 *)

\* A plausible slip: the mean of the signed errors (Math.abs forgotten)
errors_Signed(h) == [i \in 1..Len(h) |-> h[i].error]

\* line 171: history.map((h) => Math.abs(h.error))
errors(h) == [i \in 1..Len(h) |-> Abs(h[i].error)]

\* A plausible slip: the error recomputed from the prices instead of read from the row
squaredErrors_FromPrices(h) ==
    [i \in 1..Len(h) |-> (h[i].actual - h[i].predicted) * (h[i].actual - h[i].predicted)]

\* line 172: history.map((h) => h.error * h.error)
squaredErrors(h) == [i \in 1..Len(h) |-> h[i].error * h[i].error]

\* A plausible slip: `<= 5` for `< 5`
IsAccurate_Inclusive(row) ==
    row.errorPercent.den # 0 /\ Abs(row.errorPercent.num) <= 5 * Abs(row.errorPercent.den)

\* line 173: the filter predicate Math.abs(h.errorPercent) < 5
IsAccurate(row) == AbsLessThan(row.errorPercent, 5)

\* line 173: history.filter(...).length
accurateCount(h) == Len(SelectSeq(h, IsAccurate))

\* line 175: the unrounded mean absolute error, as a rational
mae(h) == [num |-> reduceSum(errors(h)), den |-> Len(errors(h))]

\* line 176: the radicand of rmse, the unrounded mean squared error, as a rational
meanSquaredError(h) == [num |-> reduceSum(squaredErrors(h)), den |-> Len(squaredErrors(h))]

\* A plausible slip: the division by history.length forgotten
accuracy_Unnormalised(h) == [num |-> accurateCount(h) * 100, den |-> 1]

\* line 177: (accurateCount / history.length) * 100, as a rational
accuracy(h) == [num |-> accurateCount(h) * 100, den |-> Len(h)]

\* A plausible slip: an empty history reported as fully accurate
EmptyMetrics_Vacuous == [mae |-> 0, rmse |-> 0, accuracy |-> 1000, totalPredictions |-> 0]

\* line 168
EmptyMetrics == [mae |-> 0, rmse |-> 0, accuracy |-> 0, totalPredictions |-> 0]

calculatePerformanceMetrics(h) ==
    IF Len(h) = 0 THEN EmptyMetrics
    ELSE [mae              |-> MathRound(mae(h).num * 100, mae(h).den),
          rmse             |-> MathRoundSqrt100(meanSquaredError(h).num, meanSquaredError(h).den),
          accuracy         |-> MathRound(accuracy(h).num * 10, accuracy(h).den),
          totalPredictions |-> Len(h)]

----------------------------------------------------------------------------
(* Inputs of the evaluation engine: PredictionComparison rows (types.ts    *)
(* 96-103).  The fields are independent numbers, as in the unit tests:     *)
(* error need not equal actual - predicted.                                *)

ErrorValues == {-2, 1, 2}

PercentValues == {[num |-> -5, den |-> 1], [num |-> 499, den |-> 100], [num |-> 5, den |-> 1]}

ComparisonRows ==
    [date : {1}, predicted : {100}, actual : {100, 102}, error : ErrorValues,
     errorPercent : PercentValues, confidence : {None}]

Histories == UNION {[1..n -> ComparisonRows] : n \in 0..MaxHist}

----------------------------------------------------------------------------
(* SpecMetrics: the evaluation engine applied to an arbitrary history *)

InitMetrics ==
    /\ store = {}
    /\ resp = None
    /\ history \in Histories
    /\ perf = None
    /\ ClientNotLoaded
    /\ NoRuns

Calculate ==
    /\ perf = None
    /\ perf' = Some(calculatePerformanceMetrics(history))
    /\ UNCHANGED <<store, resp, history, clientVars, jobVars>>

NextMetrics == Calculate

SpecMetrics == InitMetrics /\ [][NextMetrics]_vars

----------------------------------------------------------------------------
(* The crypto_metrics table: CREATE TABLE (lib/__tests__/utils.test.ts     *)
(* 101-113) and its Row type (lib/supabase/types.ts 43-54).  A row is      *)
(* identified by (date, symbol, model_version); id and created_at, which   *)
(* no read function inspects, are left out.  date is a day number (the     *)
(* 'YYYY-MM-DD' strings of the table order the same way).                  *)

Dates == 1..MaxDate

Symbols == {"BTC-USD", "ETH-USD"}

ModelVersions == {"linear_v1", "linear_v2"}

ActualPrices == {None, Some(100)}

\* <<predicted_price, confidence_score>> of a row
Forecasts == {<<None, None>>, <<Some(95), Some(1)>>, <<Some(105), None>>}

CryptoMetric ==
    {[date |-> d, symbol |-> s, model_version |-> v, actual_price |-> a,
      predicted_price |-> f[1], confidence_score |-> f[2],
      prediction_lower_bound |-> None, prediction_upper_bound |-> None] :
        d \in Dates, s \in Symbols, v \in ModelVersions, a \in ActualPrices, f \in Forecasts}

RowKey(r) == <<r.date, r.symbol, r.model_version>>

\* A plausible slip: the constraint left out, the primary key id alone being unique
unique_date_symbol_version_IdOnly(rows) ==
    \A r1, r2 \in rows : r1 = r2 => RowKey(r1) = RowKey(r2)

\* CONSTRAINT unique_date_symbol_version UNIQUE (date, symbol, model_version)
unique_date_symbol_version(rows) ==
    \A r1, r2 \in rows : RowKey(r1) = RowKey(r2) => r1 = r2

----------------------------------------------------------------------------
(* The query builder calls of crypto.ts, answered by the table.  A reply   *)
(* is {data, error}; any query may fail ({data: null, error}) or come back *)
(* empty-handed ({data: null, error: null}, as the unit tests mock it).    *)
(* Rows with equal dates come back in either order.                        *)

ErrorMessages == {"Database error"}

\* .single() on a result that is not exactly one row
SingleRowError == [message |-> "JSON object requested, multiple (or no) rows returned"]

Min(a, b) == IF a < b THEN a ELSE b

\* .order('date', { ascending }): every arrangement of rows sorted by date
Order(rows, ascending) ==
    {q \in [1..Cardinality(rows) -> rows] :
        /\ \A i, j \in 1..Cardinality(rows) : i # j => q[i] # q[j]
        /\ \A i, j \in 1..Cardinality(rows) :
              i < j => IF ascending THEN q[i].date <= q[j].date ELSE q[i].date >= q[j].date}

\* .limit(n)
Limit(q, n) == SubSeq(q, 1, Min(n, Len(q)))

FailedReplies ==
    {[data |-> None, error |-> Some([message |-> m])] : m \in ErrorMessages}
        \cup {[data |-> None, error |-> None]}

\* replies to a query ending in .order(...).limit(n)
ListReplies(rows, ascending, n) ==
    {[data |-> Some(Limit(q, n)), error |-> None] : q \in Order(rows, ascending)}
        \cup FailedReplies

\* replies to a query ending in .order(...).limit(1).single()
SingleReplies(rows, ascending) ==
    {IF Len(Limit(q, 1)) = 1
        THEN [data |-> Some(q[1]), error |-> None]
        ELSE [data |-> None, error |-> Some(SingleRowError)] : q \in Order(rows, ascending)}
        \cup FailedReplies

\* A plausible slip: the newest rows asked for, as the other queries do
cryptoMetricsQuery_Descending(symbol, days) ==
    ListReplies({r \in store : r.symbol = symbol}, FALSE, days + 1)

\* crypto.ts 24-29
cryptoMetricsQuery(symbol, days) ==
    ListReplies({r \in store : r.symbol = symbol}, TRUE, days + 1)

\* A plausible slip: the order of the chart query (ascending) reused
latestPredictionQuery_Oldest(symbol) ==
    SingleReplies({r \in store : r.symbol = symbol /\ r.predicted_price # None}, TRUE)

\* crypto.ts 69-76
latestPredictionQuery(symbol) ==
    SingleReplies({r \in store : r.symbol = symbol /\ r.predicted_price # None}, FALSE)

\* crypto.ts 96-103
latestActualPriceQuery(symbol) ==
    SingleReplies({r \in store : r.symbol = symbol /\ r.actual_price # None}, FALSE)

\* A plausible slip: the filter on actual_price left out
predictionHistoryQuery_Unsettled(symbol, limit) ==
    ListReplies({r \in store : r.symbol = symbol /\ r.predicted_price # None}, FALSE, limit)

\* crypto.ts 125-132
predictionHistoryQuery(symbol, limit) ==
    ListReplies({r \in store : /\ r.symbol = symbol
                               /\ r.predicted_price # None
                               /\ r.actual_price # None}, FALSE, limit)

----------------------------------------------------------------------------
(* The read functions of crypto.ts, each applied to the reply of its       *)
(* query.  An outcome is a returned value or a thrown Error.               *)

\* crypto.ts 33: the fixed part of the message (its accents dropped)
FetchErrorPrefix == "Impossible de recuperer les donnees: "

Returned(v) == [threw |-> FALSE, value |-> v, error |-> None]

\* new Error(`${prefix}${message}`)
Threw(prefix, message) ==
    [threw |-> TRUE, value |-> None, error |-> Some([prefix |-> prefix, message |-> message])]

\* A plausible slip: the failure swallowed, as the other read functions do
getCryptoMetrics_Swallow(reply) ==
    Returned(IF reply.data = None THEN <<>> ELSE reply.data[1])

\* crypto.ts 31-36
getCryptoMetrics(reply) ==
    IF reply.error # None
        THEN Threw(FetchErrorPrefix, reply.error[1].message)
        ELSE Returned(IF reply.data = None THEN <<>> ELSE reply.data[1])

\* The `!` of lines 142-143 has no effect at run time: a null would flow on and
\* count as 0 in the arithmetic of lines 144-145
NonNull(price) == IF price = None THEN 0 ELSE price[1]

\* crypto.ts 188-194: toLocaleDateString('fr-FR', {day: '2-digit', month: 'short'});
\* the days of the model all lie in one January
formatDate(date) == [day |-> date, month |-> "janv."]

\* A plausible slip: a missing value defaulted to 0 (`?? 0`)
ChartDataPoint_ZeroDefault(metric) ==
    [date       |-> formatDate(metric.date),
     actual     |-> Some(NonNull(metric.actual_price)),
     predicted  |-> Some(NonNull(metric.predicted_price)),
     lowerBound |-> Some(NonNull(metric.prediction_lower_bound)),
     upperBound |-> Some(NonNull(metric.prediction_upper_bound))]

\* crypto.ts 53-59
ChartDataPoint(metric) ==
    [date       |-> formatDate(metric.date),
     actual     |-> metric.actual_price,
     predicted  |-> metric.predicted_price,
     lowerBound |-> metric.prediction_lower_bound,
     upperBound |-> metric.prediction_upper_bound]

\* crypto.ts 47-60: an Error thrown by getCryptoMetrics passes through
getChartData(reply) ==
    LET metrics == getCryptoMetrics(reply)
    IN  IF metrics.threw THEN metrics
        ELSE Returned([i \in 1..Len(metrics.value) |-> ChartDataPoint(metrics.value[i])])

\* A plausible slip: the failure rethrown, as getCryptoMetrics does
getLatestPrediction_Rethrow(reply) ==
    IF reply.error # None THEN Threw(FetchErrorPrefix, reply.error[1].message)
    ELSE Returned(reply.data)

\* crypto.ts 78-83: null is None
getLatestPrediction(reply) ==
    IF reply.error # None THEN Returned(None) ELSE Returned(reply.data)

\* A plausible slip: the failure rethrown, as getCryptoMetrics does
getLatestActualPrice_Rethrow(reply) ==
    IF reply.error # None THEN Threw(FetchErrorPrefix, reply.error[1].message)
    ELSE Returned(reply.data)

\* crypto.ts 105-110
getLatestActualPrice(reply) ==
    IF reply.error # None THEN Returned(None) ELSE Returned(reply.data)

\* A plausible slip: the percentage taken relative to the predicted price
PredictionComparison_OfPredicted(metric) ==
    LET predicted == NonNull(metric.predicted_price)
        actual == NonNull(metric.actual_price)
        predictionError == actual - predicted
    IN  [date |-> metric.date, predicted |-> predicted, actual |-> actual,
         error |-> predictionError,
         errorPercent |-> [num |-> predictionError * 100, den |-> predicted],
         confidence |-> metric.confidence_score]

\* crypto.ts 141-155
PredictionComparison(metric) ==
    LET predicted == NonNull(metric.predicted_price)
        actual == NonNull(metric.actual_price)
        predictionError == actual - predicted
        errorPercent == [num |-> predictionError * 100, den |-> actual]
    IN  [date |-> metric.date, predicted |-> predicted, actual |-> actual,
         error |-> predictionError, errorPercent |-> errorPercent,
         confidence |-> metric.confidence_score]

\* crypto.ts 134-155
getPredictionHistory(reply) ==
    IF reply.error # None THEN Returned(<<>>)
    ELSE IF reply.data = None THEN Returned(<<>>)
    ELSE Returned([i \in 1..Len(reply.data[1]) |-> PredictionComparison(reply.data[1][i])])

----------------------------------------------------------------------------
(* The BTC Oracle page (unnamed/part_002, the later version of part_001) *)

\* part_002 38-41
PageSymbol == "BTC-USD"

\* part_002 38
PageDays == 30

\* part_002 41
PageLimit == 14

\* A plausible slip: the price tested against null only, a price of 0 let through
priceChange_Unguarded(prediction, latestPrice) ==
    IF /\ prediction # None
       /\ latestPrice # None
       /\ latestPrice[1].actual_price # None
    THEN Some([num |-> (NonNull(prediction[1].predicted_price)
                          - latestPrice[1].actual_price[1]) * 100,
               den |-> latestPrice[1].actual_price[1]])
    ELSE None

\* part_002 45-47: null (None) unless a prediction and a non-zero latest actual
\* price exist; otherwise the rational (predicted - actual) / actual * 100
priceChange(prediction, latestPrice) ==
    IF /\ prediction # None
       /\ latestPrice # None
       /\ latestPrice[1].actual_price # None
       /\ latestPrice[1].actual_price[1] # 0
    THEN Some([num |-> (NonNull(prediction[1].predicted_price)
                          - latestPrice[1].actual_price[1]) * 100,
               den |-> latestPrice[1].actual_price[1]])
    ELSE None

\* part_002 97 (part_001 86): priceChange ? (priceChange > 0 ? 'up' : 'down') : undefined;
\* null and 0 are falsy, undefined is None
cardTrend(change) ==
    IF change = None \/ change[1].num = 0 THEN None
    ELSE IF change[1].num * change[1].den > 0 THEN Some("up")
    ELSE Some("down")

----------------------------------------------------------------------------
(* Spec: the table filled by inserts, and the read functions called on it. *)
(* resp is the call that has just completed, with its arguments, the reply *)
(* of its query and its outcome; it is handed to the caller (Return)       *)
(* before the next call or write.                                          *)

Init ==
    /\ store = {}
    /\ resp = None
    /\ history = <<>>
    /\ perf = None
    /\ ClientNotLoaded
    /\ NoRuns

\* INSERT INTO crypto_metrics, accepted when the unique constraint allows it
InsertRow ==
    /\ resp = None
    /\ Cardinality(store) < MaxRows
    /\ \E r \in CryptoMetric :
          /\ unique_date_symbol_version(store \cup {r})
          /\ r \notin store
          /\ store' = store \cup {r}
    /\ UNCHANGED <<resp, history, perf, clientVars, jobVars>>

\* the queries, named after the function that sends them, whose reply carries an error
Failed(op, reply) == IF reply.error # None THEN {op} ELSE {}

Call(op, symbol, arg, reply, outcome) ==
    /\ resp = None
    /\ resp' = Some([op |-> op, symbol |-> symbol, arg |-> arg, reply |-> reply,
                     failed |-> Failed(op, reply), outcome |-> outcome])
    /\ UNCHANGED <<store, history, perf, clientVars, jobVars>>

GetCryptoMetrics ==
    \E symbol \in Symbols, days \in 0..MaxDays :
        \E reply \in cryptoMetricsQuery(symbol, days) :
            Call("getCryptoMetrics", symbol, days, reply, getCryptoMetrics(reply))

GetChartData ==
    \E symbol \in Symbols, days \in 0..MaxDays :
        \E reply \in cryptoMetricsQuery(symbol, days) :
            Call("getChartData", symbol, days, reply, getChartData(reply))

GetLatestPrediction ==
    \E symbol \in Symbols :
        \E reply \in latestPredictionQuery(symbol) :
            Call("getLatestPrediction", symbol, 0, reply, getLatestPrediction(reply))

GetLatestActualPrice ==
    \E symbol \in Symbols :
        \E reply \in latestActualPriceQuery(symbol) :
            Call("getLatestActualPrice", symbol, 0, reply, getLatestActualPrice(reply))

GetPredictionHistory ==
    \E symbol \in Symbols, limit \in 1..MaxLimit :
        \E reply \in predictionHistoryQuery(symbol, limit) :
            Call("getPredictionHistory", symbol, limit, reply, getPredictionHistory(reply))

\* part_002 35-50 (and part_001 37-52): the four reads awaited together, then
\* priceChange and the performance metrics.  Promise.all rejects when one of
\* the reads throws.
BTCOraclePage ==
    \E chartReply \in cryptoMetricsQuery(PageSymbol, PageDays),
       predictionReply \in latestPredictionQuery(PageSymbol),
       priceReply \in latestActualPriceQuery(PageSymbol),
       historyReply \in predictionHistoryQuery(PageSymbol, PageLimit) :
        LET chartData == getChartData(chartReply)
            prediction == getLatestPrediction(predictionReply)
            latestPrice == getLatestActualPrice(priceReply)
            predictionHistory == getPredictionHistory(historyReply)
            thrown == {o \in {chartData, prediction, latestPrice, predictionHistory} : o.threw}
            failed == Failed("getChartData", chartReply)
                          \cup Failed("getLatestPrediction", predictionReply)
                          \cup Failed("getLatestActualPrice", priceReply)
                          \cup Failed("getPredictionHistory", historyReply)
            rendered ==
                Returned([chartData          |-> chartData.value,
                          prediction         |-> prediction.value,
                          latestPrice        |-> latestPrice.value,
                          predictionHistory  |-> predictionHistory.value,
                          priceChange        |-> priceChange(prediction.value, latestPrice.value),
                          trend              |->
                              cardTrend(priceChange(prediction.value, latestPrice.value)),
                          performanceMetrics |->
                              calculatePerformanceMetrics(predictionHistory.value)])
        IN  /\ resp = None
            /\ \E outcome \in (IF thrown = {} THEN {rendered} ELSE thrown) :
                  resp' = Some([op |-> "BTCOraclePage", symbol |-> PageSymbol, arg |-> 0,
                                reply |-> None, failed |-> failed, outcome |-> outcome])
            /\ UNCHANGED <<store, history, perf, clientVars, jobVars>>

Return ==
    /\ resp # None
    /\ resp' = None
    /\ UNCHANGED <<store, history, perf, clientVars, jobVars>>

Next ==
    \/ InsertRow
    \/ GetCryptoMetrics
    \/ GetChartData
    \/ GetLatestPrediction
    \/ GetLatestActualPrice
    \/ GetPredictionHistory
    \/ BTCOraclePage
    \/ Return

Spec == Init /\ [][Next]_vars

----------------------------------------------------------------------------
(* SpecPage: the page over the rows of its symbol.  actual_price is a      *)
(* NUMERIC column with no CHECK constraint (lib/__tests__/utils.test.ts    *)
(* 101-113), so the table also holds a price of 0.                         *)

\* rows of BTC-USD under one model version
PageRows ==
    [date : Dates, symbol : {PageSymbol}, model_version : {"linear_v1"},
     actual_price : {None, Some(0), Some(100)},
     predicted_price : {None, Some(95), Some(100), Some(105)},
     confidence_score : {None}, prediction_lower_bound : {None},
     prediction_upper_bound : {None}]

InsertPageRow ==
    /\ resp = None
    /\ Cardinality(store) < MaxRows
    /\ \E r \in PageRows :
          /\ unique_date_symbol_version(store \cup {r})
          /\ r \notin store
          /\ store' = store \cup {r}
    /\ UNCHANGED <<resp, history, perf, clientVars, jobVars>>

NextPage ==
    \/ InsertPageRow
    \/ GetPredictionHistory
    \/ BTCOraclePage
    \/ Return

SpecPage == Init /\ [][NextPage]_vars

----------------------------------------------------------------------------
(* The write side of the table.  The table accepts an INSERT that keeps    *)
(* unique_date_symbol_version and an upsert on that constraint; it has no  *)
(* CHECK constraint and no DELETE policy (lib/__tests__/utils.test.ts      *)
(* 101-156).  A payload names a subset of the columns (the Insert and      *)
(* Update types, lib/supabase/types.ts 55-76): a column it leaves out gets *)
(* NULL on insert and keeps its value on update.                           *)

\* <<predicted_price, confidence_score, prediction_lower_bound, prediction_upper_bound>>
StoredForecasts ==
    {<<None, None, None, None>>,
     <<Some(95), Some(1), Some(90), Some(110)>>,
     <<Some(105), None, None, None>>,
     <<Some(105), None, Some(90), None>>}

\* payloads of a plain INSERT, every column given
InsertPayloads ==
    {[date |-> d, symbol |-> s, model_version |-> v, actual_price |-> a,
      predicted_price |-> f[1], confidence_score |-> f[2],
      prediction_lower_bound |-> f[3], prediction_upper_bound |-> f[4]] :
        d \in Dates, s \in Symbols, v \in ModelVersions, a \in ActualPrices,
        f \in StoredForecasts}

\* the value a payload gives to a column, NULL when it leaves the column out
Column(payload, c) == IF c \in DOMAIN payload THEN payload[c] ELSE None

\* A plausible slip: ON CONFLICT DO NOTHING (ignoreDuplicates), the stored row kept
Updated_Ignore(row, payload, c) == row[c]

\* the value of a column after an UPDATE of row by payload
Updated(row, payload, c) == IF c \in DOMAIN payload THEN payload[c] ELSE row[c]

\* the row an INSERT of payload creates
InsertedRow(payload) ==
    [date                   |-> payload.date,
     symbol                 |-> payload.symbol,
     model_version          |-> payload.model_version,
     actual_price           |-> Column(payload, "actual_price"),
     predicted_price        |-> Column(payload, "predicted_price"),
     confidence_score       |-> Column(payload, "confidence_score"),
     prediction_lower_bound |-> Column(payload, "prediction_lower_bound"),
     prediction_upper_bound |-> Column(payload, "prediction_upper_bound")]

\* A plausible slip: the conflicting row replaced whole, its other columns reset
UpdatedRow_Replaced(row, payload) == InsertedRow(payload)

\* the row an UPDATE of row by payload leaves
UpdatedRow(row, payload) ==
    [date                   |-> row.date,
     symbol                 |-> row.symbol,
     model_version          |-> row.model_version,
     actual_price           |-> Updated(row, payload, "actual_price"),
     predicted_price        |-> Updated(row, payload, "predicted_price"),
     confidence_score       |-> Updated(row, payload, "confidence_score"),
     prediction_lower_bound |-> Updated(row, payload, "prediction_lower_bound"),
     prediction_upper_bound |-> Updated(row, payload, "prediction_upper_bound")]

\* A plausible slip: the table emptied before the write (a full refresh)
Upsert_Refresh(rows, payload) == {InsertedRow(payload)}

\* A plausible slip: a plain INSERT of the payload, the conflict not handled
Upsert_Append(rows, payload) == rows \cup {InsertedRow(payload)}

\* INSERT ... ON CONFLICT (date, symbol, model_version) DO UPDATE
Upsert(rows, payload) ==
    IF \E r \in rows : RowKey(r) = RowKey(payload)
        THEN {IF RowKey(r) = RowKey(payload) THEN UpdatedRow(r, payload) ELSE r : r \in rows}
        ELSE rows \cup {InsertedRow(payload)}

----------------------------------------------------------------------------
(* The Prediction Writer (scripts/etl_btc.py, which is not among the       *)
(* sources; taken from the specification, section 4.3): given the forecast *)
(* for date D and, when there is one, the realized price of date D - 1, it *)
(* upserts the prior date's actual_price and then the forecast row of D.   *)

\* the Forecaster's output: predicted_price, its interval and confidence
WriterForecasts ==
    {[predicted_price |-> 95, prediction_lower_bound |-> 90,
      prediction_upper_bound |-> 110, confidence_score |-> 1],
     [predicted_price |-> 105, prediction_lower_bound |-> 105,
      prediction_upper_bound |-> 105, confidence_score |-> 1]}

\* the realized price of the prior date, None when none is available
WriterActuals == {None, Some(100), Some(102)}

WriterInputs ==
    [date : Dates, symbol : Symbols, model_version : ModelVersions,
     forecast : WriterForecasts, actual : WriterActuals]

ActualPayload(in) ==
    [date |-> in.date - 1, symbol |-> in.symbol, model_version |-> in.model_version,
     actual_price |-> in.actual]

ForecastPayload(in) ==
    [date |-> in.date, symbol |-> in.symbol, model_version |-> in.model_version,
     predicted_price        |-> Some(in.forecast.predicted_price),
     prediction_lower_bound |-> Some(in.forecast.prediction_lower_bound),
     prediction_upper_bound |-> Some(in.forecast.prediction_upper_bound),
     confidence_score       |-> Some(in.forecast.confidence_score)]

\* A plausible slip: the forecast row dated one day after the newest stored row of
\* the symbol rather than by the job's date D
PredictionWriter_NextStoredDate(rows, in) ==
    LET stored == {r.date : r \in {q \in rows : q.symbol = in.symbol}}
        newest == CHOOSE d \in stored : \A e \in stored : e <= d
        next == IF stored = {} THEN in.date ELSE newest + 1
    IN  Upsert(rows, ForecastPayload([in EXCEPT !.date = next]))

\* one run of the job on the table rows
PredictionWriter(rows, in) ==
    LET finalized == IF in.actual # None /\ in.date - 1 \in Dates
                        THEN Upsert(rows, ActualPayload(in))
                        ELSE rows
    IN  Upsert(finalized, ForecastPayload(in))

----------------------------------------------------------------------------
(* SpecStore: the table under inserts and runs of the Prediction Writer,   *)
(* read by the functions of crypto.ts.  A run of the writer is recorded in *)
(* resp like a call: its inputs, the table before and after its first run, *)
(* and how many times the job has run with these inputs.                   *)

\* INSERT INTO crypto_metrics; a payload that breaks the constraint is rejected
InsertMetric ==
    /\ resp = None
    /\ Cardinality(store) < MaxRows
    /\ \E payload \in InsertPayloads :
          /\ unique_date_symbol_version(store \cup {InsertedRow(payload)})
          /\ InsertedRow(payload) \notin store
          /\ store' = store \cup {InsertedRow(payload)}
    /\ UNCHANGED <<resp, history, perf, clientVars, jobVars>>

WriterRun ==
    /\ resp = None
    /\ \E in \in WriterInputs :
          /\ Cardinality(PredictionWriter(store, in)) <= MaxRows
          /\ store' = PredictionWriter(store, in)
          /\ resp' = Some([op |-> "PredictionWriter", symbol |-> in.symbol, arg |-> in,
                           reply |-> None, failed |-> {},
                           outcome |-> Returned([before |-> store,
                                                 after  |-> PredictionWriter(store, in),
                                                 runs   |-> 1])])
    /\ UNCHANGED <<history, perf, clientVars, jobVars>>

\* the same day's job run again with the same inputs
WriterRerun ==
    /\ resp # None
    /\ resp[1].op = "PredictionWriter"
    /\ resp[1].outcome.value.runs = 1
    /\ store' = PredictionWriter(store, resp[1].arg)
    /\ resp' = Some([resp[1] EXCEPT !.outcome.value.runs = 2])
    /\ UNCHANGED <<history, perf, clientVars, jobVars>>

NextStore ==
    \/ InsertMetric
    \/ WriterRun
    \/ WriterRerun
    \/ GetCryptoMetrics
    \/ GetChartData
    \/ GetLatestPrediction
    \/ GetLatestActualPrice
    \/ GetPredictionHistory
    \/ Return

SpecStore == Init /\ [][NextStore]_vars

----------------------------------------------------------------------------
(* SpecRuns: two runs of the Prediction Writer for one symbol and model    *)
(* version, overlapping in time.  Each upsert is one statement, atomic in  *)
(* the database; the upserts of the two runs interleave in every order.    *)

\* the two runs, in the order in which they start
Runs == {1, 2}

RunInputs == {in \in WriterInputs : in.symbol = PageSymbol /\ in.model_version = "linear_v1"}

\* the upserts of one run, in order: the prior date's actual price when there is one,
\* then the forecast row (the two steps of PredictionWriter)
writerPayloads(in) ==
    IF in.actual # None /\ in.date - 1 \in Dates
        THEN <<ActualPayload(in), ForecastPayload(in)>>
        ELSE <<ForecastPayload(in)>>

StartRun ==
    /\ Len(jobs) + 1 \in Runs
    /\ \E in \in RunInputs : jobs' = Append(jobs, [in |-> in, done |-> 0])
    /\ UNCHANGED <<store, resp, history, perf, clientVars, upserts>>

\* the next upsert of a run reaches the table
RunUpsert ==
    \E run \in 1..Len(jobs) :
        LET payloads == writerPayloads(jobs[run].in)
        IN  /\ jobs[run].done < Len(payloads)
            /\ store' = Upsert(store, payloads[jobs[run].done + 1])
            /\ upserts' = Append(upserts, [run |-> run,
                                           payload |-> payloads[jobs[run].done + 1]])
            /\ jobs' = [jobs EXCEPT ![run].done = @ + 1]
            /\ UNCHANGED <<resp, history, perf, clientVars>>

NextRuns ==
    \/ StartRun
    \/ RunUpsert

SpecRuns == Init /\ [][NextRuns]_vars

----------------------------------------------------------------------------
(* The Supabase client module, lib/supabase/client.ts.  unnamed/part_004   *)
(* and part_005 read and validate the environment at each creation;        *)
(* part_006 reads it once, when the module loads, and does not validate.   *)
(* A variable of the environment is undefined (None), empty or set.        *)

EnvUrls == {None, Some(""), Some("https://project.supabase.co")}

EnvKeys == {None, Some("anon-key")}

Envs == [url : EnvUrls, key : EnvKeys]

\* truthiness of a string | undefined
Truthy(v) == v # None /\ v # Some("")

\* part_005 13-25 (part_004 15-27)
getEnvVars(e) ==
    IF ~Truthy(e.url) \/ ~Truthy(e.key)
        THEN Threw("Missing Supabase environment variables. ",
                   "Please set NEXT_PUBLIC_SUPABASE_URL and NEXT_PUBLIC_SUPABASE_ANON_KEY in .env.local")
        ELSE Returned([supabaseUrl |-> e.url, supabaseAnonKey |-> e.key])

\* createClient of @supabase/supabase-js: a new object at each call, told apart by
\* its rank among the clients created so far
createSupabaseClient(supabaseUrl, supabaseAnonKey, created) ==
    [supabaseUrl |-> supabaseUrl, supabaseKey |-> supabaseAnonKey, id |-> Len(created) + 1]

\* A plausible slip: the test of the cached instance left out
createBrowserClient_Uncached(cached, e, created) ==
    IF getEnvVars(e).threw
        THEN [outcome |-> getEnvVars(e), browserClient |-> cached, clients |-> created]
    ELSE LET client == createSupabaseClient(getEnvVars(e).value.supabaseUrl,
                                            getEnvVars(e).value.supabaseAnonKey, created)
         IN  [outcome |-> Returned(client), browserClient |-> Some(client),
              clients |-> Append(created, client)]

\* part_005 48-54 (part_004 64-70): the outcome of the call, the cached instance and
\* the clients created, after the call
createBrowserClient(cached, e, created) ==
    IF cached # None
        THEN [outcome |-> Returned(cached[1]), browserClient |-> cached, clients |-> created]
    ELSE IF getEnvVars(e).threw
        THEN [outcome |-> getEnvVars(e), browserClient |-> cached, clients |-> created]
    ELSE LET client == createSupabaseClient(getEnvVars(e).value.supabaseUrl,
                                            getEnvVars(e).value.supabaseAnonKey, created)
         IN  [outcome |-> Returned(client), browserClient |-> Some(client),
              clients |-> Append(created, client)]

\* part_006 34-39: the constants read at load are passed on as they are.  What the
\* library does with a missing argument is not in the sources: it returns a client or
\* throws, and a throw leaves browserClient unassigned.
createBrowserClientUnvalidated(cached, module, created) ==
    IF cached # None
        THEN {[outcome |-> Returned(cached[1]), browserClient |-> cached, clients |-> created]}
    ELSE LET client == createSupabaseClient(module.supabaseUrl, module.supabaseAnonKey,
                                            created)
             made == [outcome |-> Returned(client), browserClient |-> Some(client),
                      clients |-> Append(created, client)]
             rejected == [outcome |-> Threw("supabase-js: ", "supabaseUrl is required."),
                          browserClient |-> cached, clients |-> created]
         IN  IF Truthy(module.supabaseUrl) /\ Truthy(module.supabaseAnonKey)
                 THEN {made} ELSE {made, rejected}

\* the module loaded in either variant, under any environment
InitClient ==
    /\ store = {}
    /\ resp = None
    /\ history = <<>>
    /\ perf = None
    /\ env \in Envs
    /\ loaded \in {[validates |-> TRUE, supabaseUrl |-> None, supabaseAnonKey |-> None],
                    [validates |-> FALSE, supabaseUrl |-> env.url, supabaseAnonKey |-> env.key]}
    /\ browserClient = None
    /\ clients = <<>>
    /\ calls = <<>>
    /\ NoRuns

\* process.env changes between two calls
SetEnv ==
    /\ \E e \in Envs : e # env /\ env' = e
    /\ UNCHANGED <<store, resp, history, perf, loaded, browserClient, clients, calls, jobVars>>

CreateBrowserClient ==
    /\ Len(calls) < MaxCalls
    /\ \E result \in (IF loaded.validates
                          THEN {createBrowserClient(browserClient, env, clients)}
                          ELSE createBrowserClientUnvalidated(browserClient, loaded, clients)) :
          /\ browserClient' = result.browserClient
          /\ clients' = result.clients
          /\ calls' = Append(calls, [env |-> env, cached |-> browserClient,
                                     outcome |-> result.outcome])
    /\ UNCHANGED <<store, resp, history, perf, env, loaded, jobVars>>

NextClient ==
    \/ SetEnv
    \/ CreateBrowserClient

SpecClient == InitClient /\ [][NextClient]_vars

----------------------------------------------------------------------------
(* PredictionHistoryTable (app/projects/btc-oracle/components/             *)
(* PredictionHistoryTable.tsx): the status of each row and the footer.     *)
(* The labels are written without their accents.                           *)

\* A plausible slip: `<= 5` for `< 5`
getAccuracyStatus_Inclusive(errorPercent) ==
    IF errorPercent.den # 0 /\ Abs(errorPercent.num) <= 5 * Abs(errorPercent.den)
        THEN "Precis"
    ELSE IF AbsLessThan(errorPercent, 10) THEN "Acceptable"
    ELSE "Imprecis"

\* PredictionHistoryTable.tsx 37-62: the label of the status
getAccuracyStatus(errorPercent) ==
    IF AbsLessThan(errorPercent, 5) THEN "Precis"
    ELSE IF AbsLessThan(errorPercent, 10) THEN "Acceptable"
    ELSE "Imprecis"

\* PredictionHistoryTable.tsx 166-167: the filter predicate of the footer
footerFilter(h) == AbsLessThan(h.errorPercent, 5)

\* PredictionHistoryTable.tsx 64-171: the placeholder for an empty history, otherwise
\* one status per row and the footer (toFixed(0) rounds to the nearest integer)
PredictionHistoryTable(h) ==
    IF Len(h) = 0 THEN [kind |-> "empty", status |-> <<>>, analysed |-> 0, precise |-> 0,
                        percent |-> 0]
    ELSE [kind     |-> "table",
          status   |-> [i \in 1..Len(h) |-> getAccuracyStatus(h[i].errorPercent)],
          analysed |-> Len(h),
          precise  |-> Len(SelectSeq(h, footerFilter)),
          percent  |-> MathRound(Len(SelectSeq(h, footerFilter)) * 100, Len(h))]

\* errorPercent on both sides of the thresholds 5 and 10, and a division by zero
TablePercents ==
    {[num |-> 499, den |-> 100], [num |-> -5, den |-> 1], [num |-> 5, den |-> 1],
     [num |-> 999, den |-> 100], [num |-> -10, den |-> 1], [num |-> -9500, den |-> 0]}

TableRows ==
    [date : {1}, predicted : {100}, actual : {100}, error : {1},
     errorPercent : TablePercents, confidence : {None}]

InitTable ==
    /\ store = {}
    /\ resp = None
    /\ history \in UNION {[1..n -> TableRows] : n \in 0..MaxHist}
    /\ perf = None
    /\ ClientNotLoaded
    /\ NoRuns

RenderTable ==
    /\ resp = None
    /\ resp' = Some([op |-> "PredictionHistoryTable", symbol |-> "", arg |-> history,
                     reply |-> None, failed |-> {},
                     outcome |-> Returned(PredictionHistoryTable(history))])
    /\ UNCHANGED <<store, history, perf, clientVars, jobVars>>

NextTable ==
    \/ Calculate
    \/ RenderTable

SpecTable == InitTable /\ [][NextTable]_vars

----------------------------------------------------------------------------
(* PredictionCard (app/projects/btc-oracle/components/PredictionCard.tsx). *)
(* A class name is a sequence of class tokens.                             *)

\* the Tailwind group in which tailwind-merge lets a later class replace an earlier
\* one (lib/__tests__/utils.test.ts 14-18), for the classes of the card's root
ClassGroup(class) ==
    CASE class \in {"bg-card", "bg-primary/5"} -> "bg-color"
      [] class = "border-primary" -> "border-color"
      [] OTHER -> class

\* twMerge: a class is dropped when a later class belongs to the same group
twMerge(classes) ==
    LET kept == {i \in 1..Len(classes) :
                    \A j \in (i + 1)..Len(classes) :
                        ClassGroup(classes[j]) # ClassGroup(classes[i])}
        F[i \in 0..Len(classes)] ==
            IF i = 0 THEN <<>>
            ELSE IF i \in kept THEN Append(F[i - 1], classes[i]) ELSE F[i - 1]
    IN  F[Len(classes)]

\* cn(base, condition && extra): clsx drops a false input, twMerge settles conflicts
cn(base, condition, extra) == twMerge(IF condition THEN base \o extra ELSE base)

\* PredictionCard.tsx 28-46
formatValue(val, suffix) ==
    IF val = None THEN [kind |-> "dash", sign |-> "", amount |-> 0]
    ELSE IF suffix = "USD" THEN [kind |-> "currency", sign |-> "", amount |-> val[1]]
    ELSE IF suffix = "%"
        THEN [kind |-> "percent", sign |-> IF val[1] > 0 THEN "+" ELSE "", amount |-> val[1]]
    ELSE [kind |-> "plain", sign |-> "", amount |-> val[1]]

\* PredictionCard.tsx 49-53
trendColor(trend) ==
    IF trend = Some("up") THEN <<"text-green-500">>
    ELSE IF trend = Some("down") THEN <<"text-red-500">>
    ELSE <<>>

\* PredictionCard.tsx 91-94: the classes of the root element
rootClassName(highlight) ==
    cn(<<"rounded-lg", "border", "bg-card", "p-4", "transition-colors">>,
       highlight, <<"border-primary", "bg-primary/5">>)

\* PredictionCard.tsx 19-26: the props, highlight false and suffix '' when left out
CardProps ==
    [value : {None, Some(-35), Some(0), Some(1000)}, suffix : {"", "USD", "%"},
     date : {None, Some(1)}, highlight : BOOLEAN, trend : {None, Some("up"), Some("down")}]

\* PredictionCard.tsx 89-113
PredictionCard(props) ==
    [className  |-> rootClassName(props.highlight),
     value      |-> formatValue(props.value, props.suffix),
     valueClass |-> <<"text-2xl", "font-bold">> \o trendColor(props.trend),
     icon       |-> props.trend,
     date       |-> props.date]

RenderPredictionCard ==
    /\ resp = None
    /\ \E props \in CardProps :
          resp' = Some([op |-> "PredictionCard", symbol |-> "", arg |-> props,
                        reply |-> None, failed |-> {},
                        outcome |-> Returned(PredictionCard(props))])
    /\ UNCHANGED <<store, history, perf, clientVars, jobVars>>

NextCard ==
    \/ RenderPredictionCard
    \/ Return

SpecCard == Init /\ [][NextCard]_vars

----------------------------------------------------------------------------
(* The Forecaster (scripts/etl_btc.py, which is not among the sources;     *)
(* taken from the specification, section 4.2).  The closing prices are     *)
(* indexed by the time steps 0..n-1 and fitted by ordinary least squares.  *)
(* Every quantity is an exact rational num/den.  A bound of the interval   *)
(* is the predicted price and the square of its distance from it, which    *)
(* keeps the square root of the residual standard error out of the         *)
(* arithmetic: the width of the interval is 0 exactly when that square is. *)

ClosingPrices == {100, 105, 110, 120, 130}

\* the History Loader hands over at least 2 points
PriceSeries == UNION {[1..n -> ClosingPrices] : n \in 2..MaxSeries}

\* A plausible slip: the time steps counted from 1
timeSteps_FromOne(prices) == [i \in 1..Len(prices) |-> i]

\* the time steps 0..n-1
timeSteps(prices) == [i \in 1..Len(prices) |-> i - 1]

products(a, b) == [i \in 1..Len(a) |-> a[i] * b[i]]

\* the least-squares line, intercept/den + (slope/den) * x
leastSquares(prices) ==
    LET n == Len(prices)
        x == timeSteps(prices)
        Sx == reduceSum(x)
        Sy == reduceSum(prices)
        Sxx == reduceSum(products(x, x))
        Sxy == reduceSum(products(x, prices))
    IN  [slope     |-> n * Sxy - Sx * Sy,
         intercept |-> Sy * Sxx - Sx * Sxy,
         den       |-> n * Sxx - Sx * Sx]

\* the fitted line at x, times den
fitted(fit, x) == fit.intercept + fit.slope * x

\* the sum of the squared residuals of the fit
residualSumOfSquares(prices) ==
    LET fit == leastSquares(prices)
        x == timeSteps(prices)
        residual == [i \in 1..Len(prices) |-> prices[i] * fit.den - fitted(fit, x[i])]
    IN  [num |-> reduceSum(products(residual, residual)), den |-> fit.den * fit.den]

\* the sum of the squared deviations of the prices from their mean
totalSumOfSquares(prices) ==
    [num |-> Len(prices) * reduceSum(products(prices, prices))
                - reduceSum(prices) * reduceSum(prices),
     den |-> Len(prices)]

\* the coefficient of determination 1 - residual/total, for a total that is not 0
rSquared(prices) ==
    LET res == residualSumOfSquares(prices)
        tot == totalSumOfSquares(prices)
    IN  [num |-> tot.num * res.den - res.num * tot.den, den |-> tot.num * res.den]

\* a rational with den > 0 clamped to [0, 1]
clamp(q) ==
    IF q.num < 0 THEN [num |-> 0, den |-> 1]
    ELSE IF q.num > q.den THEN [num |-> 1, den |-> 1]
    ELSE q

\* R-squared clamped to [0, 1]; a constant series (zero variance) yields 0
confidence_score(prices) ==
    IF totalSumOfSquares(prices).num = 0 THEN [num |-> 0, den |-> 1]
    ELSE clamp(rSquared(prices))

RECURSIVE gcd(_, _)
gcd(a, b) == IF b = 0 THEN a ELSE gcd(b, a % b)

\* the rational q in lowest terms (q.num >= 0, q.den > 0)
lowestTerms(q) == [num |-> q.num \div gcd(q.num, q.den), den |-> q.den \div gcd(q.num, q.den)]

\* (z * stderr)^2 with z = 1.96 = 49/25 and stderr^2 = residual sum of squares / (n - 2);
\* defined as 0 for exactly 2 points
offsetSquared(prices) ==
    LET res == lowestTerms(residualSumOfSquares(prices))
    IN  IF Len(prices) <= 2 THEN [num |-> 0, den |-> 1]
        ELSE [num |-> 49 * 49 * res.num, den |-> 25 * 25 * res.den * (Len(prices) - 2)]

\* the forecast for step n, one day after the last price
Forecaster(prices) ==
    LET fit == leastSquares(prices)
        predicted == [num |-> fitted(fit, Len(prices)), den |-> fit.den]
    IN  [predicted_price        |-> predicted,
         prediction_lower_bound |-> [price |-> predicted, side |-> -1,
                                     offsetSquared |-> offsetSquared(prices)],
         prediction_upper_bound |-> [price |-> predicted, side |-> 1,
                                     offsetSquared |-> offsetSquared(prices)],
         confidence_score       |-> confidence_score(prices)]

Forecast ==
    /\ resp = None
    /\ \E prices \in PriceSeries :
          resp' = Some([op |-> "Forecaster", symbol |-> "", arg |-> prices,
                        reply |-> None, failed |-> {},
                        outcome |-> Returned(Forecaster(prices))])
    /\ UNCHANGED <<store, history, perf, clientVars, jobVars>>

NextForecast ==
    \/ Forecast
    \/ Return

SpecForecast == Init /\ [][NextForecast]_vars

----------------------------------------------------------------------------
(* Properties of the evaluation engine (checked under SpecMetrics) *)

\* Sum of f[1..n], by a recursive function over the index set
SumTo(f, n) ==
    LET S[k \in 0..n] == IF k = 0 THEN 0 ELSE S[k - 1] + f[k]
    IN  S[n]

\* history with rows i and i+1 exchanged
SwapAdjacent(h, i) ==
    [k \in 1..Len(h) |-> IF k = i THEN h[i + 1] ELSE IF k = i + 1 THEN h[i] ELSE h[k]]

\* history with the price fields blanked, the error fields kept
WithoutPrices(h) == [k \in 1..Len(h) |-> [h[k] EXCEPT !.predicted = 0, !.actual = 0]]

\* r is x = num/den rounded to the nearest integer, a tie going up (den > 0)
IsRounded(r, num, den) == 2 * num - den < 2 * den * r /\ 2 * den * r <= 2 * num + den

\* r is 100 * sqrt(num/den) rounded to the nearest integer (num >= 0, den > 0)
IsRoundedSqrt100(r, num, den) ==
    /\ r >= 0
    /\ (r = 0 \/ (2 * r - 1) * (2 * r - 1) * den <= 40000 * num)
    /\ 40000 * num < (2 * r + 1) * (2 * r + 1) * den

\* C1: applied to the empty history, calculatePerformanceMetrics returns exactly
\* {mae: 0, rmse: 0, accuracy: 0, totalPredictions: 0}, and totalPredictions is 0
\* only for the empty history.
C1_EmptyHistoryZeroMetrics ==
    perf # None =>
        /\ history = <<>> =>
              perf[1] = [mae |-> 0, rmse |-> 0, accuracy |-> 0, totalPredictions |-> 0]
        /\ perf[1].totalPredictions = 0 <=> history = <<>>

C1_Witness == perf # None /\ history = <<>>

\* C2: for a non-empty history, accuracy is 100 * (rows with |errorPercent| strictly
\* below 5) / (rows), rounded to one decimal; a row at exactly 5 is not counted, and
\* accuracy is 100 when every row is below 5.
C2_AccuracyStrictlyBelowFive ==
    (perf # None /\ history # <<>>) =>
        LET n == Len(history)
            below == {i \in 1..n : history[i].errorPercent.den # 0 /\
                         Abs(history[i].errorPercent.num) < 5 * Abs(history[i].errorPercent.den)}
            atFive == {i \in 1..n : Abs(history[i].errorPercent.num) =
                                       5 * Abs(history[i].errorPercent.den)}
        IN  /\ IsRounded(perf[1].accuracy, 1000 * Cardinality(below), n)
            /\ below \cap atFive = {}
            /\ atFive = 1..n => perf[1].accuracy = 0
            /\ below = 1..n => perf[1].accuracy = 1000

C2_Witness ==
    /\ perf # None
    /\ Len(history) = 3
    /\ \E i, j, k \in 1..3 :
          /\ history[i].errorPercent = [num |-> 5, den |-> 1]
          /\ history[j].errorPercent = [num |-> -5, den |-> 1]
          /\ history[k].errorPercent = [num |-> 499, den |-> 100]
    /\ perf[1].accuracy = 333

\* C3: for a non-empty history, mae is the mean of |error_i| and rmse the square root
\* of the mean of error_i^2, each rounded to 2 decimals, totalPredictions is the number
\* of rows; only the error field is used and the order of rows does not matter.
C3_MaeRmseFromErrorField ==
    (perf # None /\ history # <<>>) =>
        LET n == Len(history)
            absErr == [i \in 1..n |-> Abs(history[i].error)]
            sqErr == [i \in 1..n |-> history[i].error * history[i].error]
        IN  /\ IsRounded(perf[1].mae, 100 * SumTo(absErr, n), n)
            /\ IsRoundedSqrt100(perf[1].rmse, SumTo(sqErr, n), n)
            /\ perf[1].totalPredictions = n
            /\ calculatePerformanceMetrics(WithoutPrices(history)).mae = perf[1].mae
            /\ calculatePerformanceMetrics(WithoutPrices(history)).rmse = perf[1].rmse
            /\ \A i \in 1..(n - 1) :
                  calculatePerformanceMetrics(SwapAdjacent(history, i)) = perf[1]

C3_Witness ==
    /\ perf # None
    /\ Len(history) = 3
    /\ history[1].error = -2 /\ history[2].error = 1 /\ history[3].error = 2
    /\ history[1].actual - history[1].predicted # history[1].error
    /\ perf[1].mae = 167
    /\ perf[1].rmse = 173

C6_MetricsInRange ==
    perf # None =>
        /\ perf[1].mae >= 0
        /\ perf[1].rmse >= 0
        /\ perf[1].totalPredictions >= 0
        /\ perf[1].accuracy >= 0
        /\ perf[1].accuracy <= 1000

C6_Witness ==
    /\ perf # None
    /\ Len(history) >= 2
    /\ \A i \in 1..Len(history) : history[i].error < 0
    /\ perf[1].accuracy = 1000

----------------------------------------------------------------------------
(* Properties of the read path (checked under Spec) *)

\* the settled rows of a symbol: both prices present
Settled(symbol) ==
    {r \in store : r.symbol = symbol /\ r.actual_price # None /\ r.predicted_price # None}

\* a call of op has completed on a reply that carries rows
Fetched(op) ==
    /\ resp # None
    /\ resp[1].op = op
    /\ resp[1].reply.error = None
    /\ resp[1].reply.data # None

\* C7: getPredictionHistory(symbol, limit) returns only settled rows of that symbol,
\* newest first, at most limit of them, and the limit most recent ones when more exist.
C7_HistoryIsSettledNewestFirst ==
    /\ (resp # None /\ resp[1].op = "getPredictionHistory") =>
            Len(resp[1].outcome.value) <= resp[1].arg
    /\ Fetched("getPredictionHistory") =>
        LET rows == resp[1].reply.data[1]
            value == resp[1].outcome.value
            settled == Settled(resp[1].symbol)
            n == Len(value)
        IN  /\ n = Len(rows)
            /\ n = Min(resp[1].arg, Cardinality(settled))
            /\ \A i \in 1..n :
                  /\ rows[i] \in settled
                  /\ value[i].date = rows[i].date
                  /\ value[i].actual = rows[i].actual_price[1]
                  /\ value[i].predicted = rows[i].predicted_price[1]
            /\ \A i, j \in 1..n : i < j => rows[i] # rows[j] /\ value[i].date >= value[j].date
            /\ \A r \in settled :
                  (\A i \in 1..n : rows[i] # r) => \A i \in 1..n : r.date <= value[i].date

C7_Witness ==
    /\ Fetched("getPredictionHistory")
    /\ resp[1].arg = 1
    /\ Cardinality(Settled(resp[1].symbol)) = 2
    /\ \E r \in Settled(resp[1].symbol) : r.date = 1
    /\ Len(resp[1].outcome.value) = 1
    /\ resp[1].outcome.value[1].date = 2

\* C8: every row returned by getPredictionHistory has error = actual_price -
\* predicted_price (signed) and errorPercent = error / actual_price * 100, relative to
\* the actual price; date, predicted, actual and confidence are copied unchanged.
C8_ErrorRelativeToActual ==
    Fetched("getPredictionHistory") =>
        \A i \in 1..Len(resp[1].outcome.value) :
            LET metric == resp[1].reply.data[1][i]
                row == resp[1].outcome.value[i]
            IN  /\ metric.actual_price # None /\ metric.predicted_price # None
                /\ row.error = metric.actual_price[1] - metric.predicted_price[1]
                /\ row.error > 0 <=> metric.actual_price[1] > metric.predicted_price[1]
                /\ row.errorPercent.den # 0
                /\ row.errorPercent.num * metric.actual_price[1] =
                       row.error * 100 * row.errorPercent.den
                /\ row.date = metric.date
                /\ row.predicted = metric.predicted_price[1]
                /\ row.actual = metric.actual_price[1]
                /\ row.confidence = metric.confidence_score

C8_Witness ==
    /\ Fetched("getPredictionHistory")
    /\ Len(resp[1].outcome.value) = 2
    /\ \E i, j \in 1..2 :
          /\ resp[1].outcome.value[i].error = 5
          /\ resp[1].outcome.value[i].confidence = Some(1)
          /\ resp[1].outcome.value[i].errorPercent = [num |-> 500, den |-> 100]
          /\ resp[1].outcome.value[j].error = -5
          /\ resp[1].outcome.value[j].predicted = 105

\* C9 as stated: no read operation propagates a store read failure; when a query
\* fails, every read function and the page complete normally.
C9_NoReadPropagatesFailure ==
    (resp # None /\ resp[1].failed # {}) => ~resp[1].outcome.threw

\* C9 as amended: getLatestPrediction and getLatestActualPrice (null) and
\* getPredictionHistory (empty list) absorb a failure of their query and never throw;
\* getCryptoMetrics and getChartData throw exactly when theirs fails, and the page
\* fails exactly when its chart query fails.
C9_FailureAbsorbedExceptChart ==
    resp # None =>
        LET r == resp[1]
        IN  /\ r.op \in {"getLatestPrediction", "getLatestActualPrice"} =>
                  ~r.outcome.threw /\ (r.failed # {} => r.outcome.value = None)
            /\ r.op = "getPredictionHistory" =>
                  ~r.outcome.threw /\ (r.failed # {} => r.outcome.value = <<>>)
            /\ r.op \in {"getCryptoMetrics", "getChartData"} =>
                  (r.outcome.threw <=> r.failed # {})
            /\ r.op = "BTCOraclePage" =>
                  (r.outcome.threw <=> "getChartData" \in r.failed)

C9_Witness ==
    /\ resp # None
    /\ resp[1].op = "BTCOraclePage"
    /\ resp[1].failed = {"getLatestPrediction", "getLatestActualPrice", "getPredictionHistory"}
    /\ ~resp[1].outcome.threw
    /\ resp[1].outcome.value.chartData # <<>>

\* C10: getCryptoMetrics throws an Error whose message is the fixed prefix followed by
\* the store's error message whenever the query reports an error, and returns the empty
\* list when the store reports neither an error nor data.
C10_CryptoMetricsThrowsOnError ==
    (resp # None /\ resp[1].op = "getCryptoMetrics") =>
        LET r == resp[1]
        IN  /\ r.reply.error # None =>
                  /\ r.outcome.threw
                  /\ r.outcome.error =
                        Some([prefix |-> "Impossible de recuperer les donnees: ",
                              message |-> r.reply.error[1].message])
            /\ (r.reply.error = None /\ r.reply.data = None) =>
                  ~r.outcome.threw /\ r.outcome.value = <<>>

C10_Witness ==
    /\ resp # None
    /\ resp[1].op = "getCryptoMetrics"
    /\ resp[1].reply.error = Some([message |-> "Database error"])
    /\ resp[1].outcome.threw
    /\ store # {}

\* C11: when its query reports an error, getLatestPrediction and getLatestActualPrice
\* return null and getPredictionHistory returns the empty list, none of them throwing;
\* a .single() query that matches no row is an error of the store and comes out as
\* null like any other failure.
C11_ErrorGivesNullOrEmpty ==
    resp # None =>
        LET r == resp[1]
            predicted == {m \in store : m.symbol = r.symbol /\ m.predicted_price # None}
            actual == {m \in store : m.symbol = r.symbol /\ m.actual_price # None}
        IN  /\ (r.op \in {"getLatestPrediction", "getLatestActualPrice"}
                    /\ r.reply.error # None) =>
                  r.outcome = [threw |-> FALSE, value |-> None, error |-> None]
            /\ (r.op = "getPredictionHistory" /\ r.reply.error # None) =>
                  r.outcome = [threw |-> FALSE, value |-> <<>>, error |-> None]
            /\ (r.op = "getLatestPrediction" /\ predicted = {}) =>
                  r.reply.data = None /\ r.outcome.value = None /\ ~r.outcome.threw
            /\ (r.op = "getLatestActualPrice" /\ actual = {}) =>
                  r.reply.data = None /\ r.outcome.value = None /\ ~r.outcome.threw

C11_Witness ==
    /\ resp # None
    /\ resp[1].op = "getLatestActualPrice"
    /\ \E m \in store : m.symbol = resp[1].symbol
    /\ \A m \in store : m.actual_price = None
    /\ resp[1].reply.error = Some(SingleRowError)
    /\ resp[1].outcome.value = None

\* C23: the days + 1 limit makes the result include the prediction: for any table,
\* getCryptoMetrics(symbol, days), and so getChartData, returns the symbol's most recent
\* rows, the row with the greatest date among them, also when the table holds more than
\* days + 1 rows of the symbol.
C23_MetricsIncludeLatestRow ==
    (Fetched("getCryptoMetrics") \/ Fetched("getChartData")) =>
        LET rows == resp[1].reply.data[1]
            ofSymbol == {r \in store : r.symbol = resp[1].symbol}
        IN  /\ Len(resp[1].outcome.value) = Len(rows)
            /\ \A r \in ofSymbol :
                  (\A q \in ofSymbol : q.date <= r.date) =>
                      \E i \in 1..Len(rows) : rows[i].date = r.date

\* C26: getLatestPrediction(symbol) returns a row of the greatest date among the symbol's
\* rows that have a predicted_price, getLatestActualPrice(symbol) a row of the greatest
\* date among those that have an actual_price; each returns null exactly when there is no
\* such row or the query fails, so a row returned by getLatestPrediction has a
\* predicted_price.
C26_LatestRowOfItsKind ==
    (resp # None /\ resp[1].op \in {"getLatestPrediction", "getLatestActualPrice"}) =>
        LET r == resp[1]
            value == r.outcome.value
            candidates ==
                IF r.op = "getLatestPrediction"
                    THEN {m \in store : m.symbol = r.symbol /\ m.predicted_price # None}
                    ELSE {m \in store : m.symbol = r.symbol /\ m.actual_price # None}
        IN  /\ ~r.outcome.threw
            /\ value = None <=> (candidates = {} \/ r.reply \in FailedReplies)
            /\ value # None =>
                  /\ value[1] \in candidates
                  /\ \A m \in candidates : m.date <= value[1].date
                  /\ r.op = "getLatestPrediction" => value[1].predicted_price # None
                  /\ r.op = "getLatestActualPrice" => value[1].actual_price # None

\* the newer of two forecasts is returned, and the older settled row passed over
C26_Witness ==
    /\ resp # None
    /\ resp[1].op = "getLatestPrediction"
    /\ resp[1].outcome.value # None
    /\ resp[1].outcome.value[1].date = 2
    /\ resp[1].outcome.value[1].actual_price = None
    /\ \E m \in store : /\ m.symbol = resp[1].symbol
                         /\ m.date = 1
                         /\ m.predicted_price # None
                         /\ m.actual_price # None

----------------------------------------------------------------------------
(* Properties of the table and of the chart series (checked under SpecStore) *)

\* C12: getChartData returns exactly one point per row returned by the query of
\* getCryptoMetrics, in the same oldest-first order, with actual, predicted, lowerBound
\* and upperBound equal to the row's actual_price, predicted_price,
\* prediction_lower_bound and prediction_upper_bound; a null field stays null.
C12_ChartIsProjection ==
    Fetched("getChartData") =>
        LET rows == resp[1].reply.data[1]
            value == resp[1].outcome.value
        IN  /\ ~resp[1].outcome.threw
            /\ Len(value) = Len(rows)
            /\ \A i \in 1..Len(rows) :
                  /\ value[i].date.day = rows[i].date
                  /\ value[i].actual = rows[i].actual_price
                  /\ value[i].predicted = rows[i].predicted_price
                  /\ value[i].lowerBound = rows[i].prediction_lower_bound
                  /\ value[i].upperBound = rows[i].prediction_upper_bound
                  /\ rows[i].actual_price = None => value[i].actual # Some(0)
                  /\ rows[i].prediction_lower_bound = None => value[i].lowerBound = None
            /\ \A i, j \in 1..Len(value) : i < j => value[i].date.day <= value[j].date.day

C12_Witness ==
    /\ Fetched("getChartData")
    /\ Len(resp[1].outcome.value) = 2
    /\ resp[1].outcome.value[1].date.day = 1
    /\ resp[1].outcome.value[1].actual = Some(100)
    /\ resp[1].outcome.value[1].predicted = None
    /\ resp[1].outcome.value[1].lowerBound = None
    /\ resp[1].outcome.value[2].date.day = 2
    /\ resp[1].outcome.value[2].actual = None
    /\ resp[1].outcome.value[2].predicted = Some(95)
    /\ resp[1].outcome.value[2].lowerBound = Some(90)
    /\ resp[1].outcome.value[2].upperBound = Some(110)

\* C13: getChartData never emits a point in which exactly one of lowerBound and
\* upperBound is non-null, whatever rows the table returns, a row with a predicted
\* price and only one bound populated included.
C13_BoundsBothOrNeither ==
    (resp # None /\ resp[1].op = "getChartData" /\ ~resp[1].outcome.threw) =>
        \A i \in 1..Len(resp[1].outcome.value) :
            resp[1].outcome.value[i].lowerBound = None
                <=> resp[1].outcome.value[i].upperBound = None

\* the (date, symbol, model_version) triples of a set of rows
Triples(rows) == {<<r.date, r.symbol, r.model_version>> : r \in rows}

\* a run of the Prediction Writer has just completed
Written == resp # None /\ resp[1].op = "PredictionWriter"

\* C14: after any sequence of inserts and upserts the table holds at most one row for
\* each triple (date, symbol, model_version); a write on an existing triple updates
\* that row or is rejected and never adds a row.
C14_OneRowPerTriple ==
    /\ \A r1, r2 \in store :
          (r1.date = r2.date /\ r1.symbol = r2.symbol
              /\ r1.model_version = r2.model_version) => r1 = r2
    /\ Cardinality(store) = Cardinality(Triples(store))
    /\ Written =>
          LET before == resp[1].outcome.value.before
              in == resp[1].arg
              forecastRow == <<in.date, in.symbol, in.model_version>>
          IN  forecastRow \in Triples(before) =>
                  Cardinality({r \in store : <<r.date, r.symbol, r.model_version>>
                                                  = forecastRow}) = 1

C14_Witness ==
    /\ Written
    /\ Cardinality(store) = 2
    /\ Triples(store) = Triples(resp[1].outcome.value.before)
    /\ store # resp[1].outcome.value.before
    /\ \A r \in store : r \notin resp[1].outcome.value.before

\* C15: the Prediction Writer's upsert is idempotent: the same day's job run a second
\* time with the same inputs leaves the number of rows and every field of every row
\* as they were after the first run.
C15_WriterIdempotent ==
    (Written /\ resp[1].outcome.value.runs = 2) =>
        /\ Cardinality(store) = Cardinality(resp[1].outcome.value.after)
        /\ store = resp[1].outcome.value.after

C15_Witness ==
    /\ Written
    /\ resp[1].outcome.value.runs = 2
    /\ resp[1].arg.actual = Some(102)
    /\ resp[1].arg.date = 2
    /\ Cardinality(resp[1].outcome.value.before) = 1
    /\ Cardinality(store) = 2
    /\ \E r \in store : r.actual_price = Some(102) /\ r.predicted_price = Some(105)

\* the rows of the triple whose actual_price a run with inputs in finalizes
PriorRows(rows, in) ==
    {r \in rows : r.date = in.date - 1 /\ r.symbol = in.symbol
                     /\ r.model_version = in.model_version}

\* C16: when the Prediction Writer finalizes the prior date's actual_price on a row
\* that already exists, the row keeps its predicted_price, its bounds and its
\* confidence_score: a forecast row becomes a settled row holding the original
\* prediction next to the realized price.
C16_FinalizeKeepsPrediction ==
    (Written /\ resp[1].arg.actual # None) =>
        \A old \in PriorRows(resp[1].outcome.value.before, resp[1].arg) :
            \E new \in PriorRows(store, resp[1].arg) :
                /\ new.actual_price = resp[1].arg.actual
                /\ new.predicted_price = old.predicted_price
                /\ new.prediction_lower_bound = old.prediction_lower_bound
                /\ new.prediction_upper_bound = old.prediction_upper_bound
                /\ new.confidence_score = old.confidence_score

C16_Witness ==
    /\ Written
    /\ resp[1].outcome.value.runs = 1
    /\ resp[1].arg.actual = Some(100)
    /\ \E old \in PriorRows(resp[1].outcome.value.before, resp[1].arg) :
          /\ old.actual_price = None
          /\ old.predicted_price = Some(95)
          /\ old.prediction_upper_bound = Some(110)
    /\ \E new \in PriorRows(store, resp[1].arg) :
          /\ new.actual_price = Some(100)
          /\ new.predicted_price = Some(95)
          /\ new.confidence_score = Some(1)

\* C17: in every reachable state of the table every row carries at least one of
\* actual_price and predicted_price, whatever insert or update the table accepts.
C17_RowCarriesAPrice ==
    \A r \in store : r.actual_price # None \/ r.predicted_price # None

\* the read functions of crypto.ts
ReadOperations ==
    {"getCryptoMetrics", "getChartData", "getLatestPrediction", "getLatestActualPrice",
     "getPredictionHistory"}

\* C18: rows are never deleted: in every step the set of (date, symbol, model_version)
\* triples of the table only grows, and a step in which a read function completes
\* leaves the table as it was.
C18_RowsNeverDeleted ==
    [][/\ Triples(store) \subseteq Triples(store')
       /\ Cardinality(store) <= Cardinality(store')
       /\ (resp' # None /\ resp'[1].op \in ReadOperations) => store' = store]_vars

C18_Witness ==
    /\ Written
    /\ Cardinality(resp[1].outcome.value.before) = 1
    /\ Cardinality(store) = 2
    /\ \E r \in resp[1].outcome.value.before :
          /\ r.symbol # resp[1].arg.symbol
          /\ r.actual_price = Some(100)
          /\ r \in store

\* C20: getCryptoMetrics(symbol, days) returns rows of the requested symbol only, in
\* ascending date order (oldest first), and at most days + 1 of them: days + 1 when the
\* table holds that many rows of the symbol, all of them otherwise.
C20_MetricsOfSymbolOldestFirst ==
    Fetched("getCryptoMetrics") =>
        LET value == resp[1].outcome.value
            ofSymbol == {r \in store : r.symbol = resp[1].symbol}
            n == Len(value)
        IN  /\ ~resp[1].outcome.threw
            /\ n <= resp[1].arg + 1
            /\ n = Min(resp[1].arg + 1, Cardinality(ofSymbol))
            /\ \A i \in 1..n : value[i] \in store /\ value[i].symbol = resp[1].symbol
            /\ \A i, j \in 1..n : i < j => value[i] # value[j] /\ value[i].date <= value[j].date
            /\ \A r \in ofSymbol :
                  (\A i \in 1..n : value[i] # r) => \A i \in 1..n : value[i].date <= r.date

C20_Witness ==
    /\ Fetched("getCryptoMetrics")
    /\ resp[1].arg = 0
    /\ Cardinality({r \in store : r.symbol = resp[1].symbol}) = 2
    /\ \E r \in store : r.symbol = resp[1].symbol /\ r.date = 2
    /\ Len(resp[1].outcome.value) = 1
    /\ resp[1].outcome.value[1].date = 1

----------------------------------------------------------------------------
(* Properties of the components (checked under SpecCard) *)

\* the class tokens of a class name
Classes(className) == {className[i] : i \in 1..Len(className)}

\* C21: whenever PredictionCard is rendered with highlight = true the class list of
\* its root element contains 'border-accent' and 'bg-accent/5'; with highlight = false
\* it contains neither.
C21_HighlightUsesAccentClasses ==
    (resp # None /\ resp[1].op = "PredictionCard") =>
        LET classes == Classes(resp[1].outcome.value.className)
        IN  IF resp[1].arg.highlight
                THEN "border-accent" \in classes /\ "bg-accent/5" \in classes
                ELSE "border-accent" \notin classes /\ "bg-accent/5" \notin classes

----------------------------------------------------------------------------
(* Properties of the Forecaster (checked under SpecForecast) *)

\* a series of at least 3 points with equal steps between neighbours
IsLinear(prices) ==
    /\ Len(prices) >= 3
    /\ \A i \in 1..(Len(prices) - 1) : prices[i + 1] - prices[i] = prices[2] - prices[1]

\* the forecast is the next term of the progression, with an interval of width 0
PredictsNextTerm(prices, forecast) ==
    /\ forecast.predicted_price.den # 0
    /\ forecast.predicted_price.num =
          (prices[Len(prices)] + prices[2] - prices[1]) * forecast.predicted_price.den
    /\ forecast.prediction_lower_bound.price = forecast.predicted_price
    /\ forecast.prediction_upper_bound.price = forecast.predicted_price
    /\ forecast.prediction_lower_bound.offsetSquared.num = 0
    /\ forecast.prediction_upper_bound.offsetSquared.num = 0

\* C22 as stated: on every perfectly linear series of at least 3 closing prices the
\* Forecaster predicts the next term of the progression with interval width 0 and
\* confidence score 1, the constant series included.
C22_LinearSeriesConfidenceOne ==
    (resp # None /\ resp[1].op = "Forecaster" /\ IsLinear(resp[1].arg)) =>
        /\ PredictsNextTerm(resp[1].arg, resp[1].outcome.value)
        /\ resp[1].outcome.value.confidence_score.num
              = resp[1].outcome.value.confidence_score.den

\* C22 as amended: on every perfectly linear series of at least 3 closing prices the
\* Forecaster predicts the next term of the progression with interval width 0; the
\* confidence score is 1 when the slope is not 0 and 0 for the constant series.
C22_LinearSeriesNextTerm ==
    (resp # None /\ resp[1].op = "Forecaster" /\ IsLinear(resp[1].arg)) =>
        /\ PredictsNextTerm(resp[1].arg, resp[1].outcome.value)
        /\ resp[1].arg[2] # resp[1].arg[1] =>
              resp[1].outcome.value.confidence_score.num
                  = resp[1].outcome.value.confidence_score.den
        /\ resp[1].arg[2] = resp[1].arg[1] =>
              resp[1].outcome.value.confidence_score.num = 0

C22_Witness ==
    /\ resp # None
    /\ resp[1].op = "Forecaster"
    /\ resp[1].arg = <<100, 110, 120>>
    /\ resp[1].outcome.value.predicted_price.num = 130 * resp[1].outcome.value.predicted_price.den
    /\ resp[1].outcome.value.confidence_score.num = resp[1].outcome.value.confidence_score.den
    /\ resp[1].outcome.value.confidence_score.num > 0

----------------------------------------------------------------------------
(* The life of a forecast row (checked under SpecStore) *)

\* the rows of `rows` that are forecasts not yet settled
ForecastOnly(rows) == {r \in rows : r.predicted_price # None /\ r.actual_price = None}

\* C25: a forecast row of date D (predicted_price set, actual_price absent) is settled
\* by the next run of the writer that observes the realized price of D: the run sets
\* actual_price on that row and keeps its forecast, the rows of (D, symbol,
\* model_version) stay one, and the row is then within what getPredictionHistory returns;
\* a row that is still a forecast only is never returned by getPredictionHistory.
C25_ForecastRowSettledInPlace ==
    /\ Fetched("getPredictionHistory") =>
            \A i \in 1..Len(resp[1].reply.data[1]) :
                /\ resp[1].reply.data[1][i] \in store
                /\ resp[1].reply.data[1][i] \notin ForecastOnly(store)
                /\ resp[1].outcome.value[i].date = resp[1].reply.data[1][i].date
    /\ (resp # None /\ resp[1].op = "PredictionWriter" /\ resp[1].arg.actual # None) =>
            LET in == resp[1].arg
                before == resp[1].outcome.value.before
            IN  \A f \in ForecastOnly(before) :
                    RowKey(f) = RowKey(ActualPayload(in)) =>
                        LET same == {r \in store : RowKey(r) = RowKey(f)}
                        IN  /\ same = {[f EXCEPT !.actual_price = in.actual]}
                            /\ same \subseteq Settled(in.symbol)
                            /\ \A reply \in predictionHistoryQuery(in.symbol, MaxRows) :
                                  reply \notin FailedReplies =>
                                      \E i \in 1..Len(reply.data[1]) :
                                          /\ reply.data[1][i] \in same
                                          /\ getPredictionHistory(reply).value[i].actual
                                                 = in.actual[1]

\* a forecast of 105 written by one run and settled at 102 by the next, then read
C25_Witness ==
    /\ Fetched("getPredictionHistory")
    /\ \E i \in 1..Len(resp[1].outcome.value) :
          /\ resp[1].outcome.value[i].predicted = 105
          /\ resp[1].outcome.value[i].actual = 102
          /\ resp[1].outcome.value[i].date = 1
          /\ resp[1].reply.data[1][i].prediction_lower_bound = Some(105)
    /\ \E r \in ForecastOnly(store) : r.date = 2 /\ r.symbol = resp[1].symbol

----------------------------------------------------------------------------
(* Division by the actual price (checked under SpecPage) *)

\* C27: the evaluation path never divides by zero: for every settled row the table can
\* hold, a row whose actual_price is 0 included, getPredictionHistory gives a defined,
\* finite errorPercent, and calculatePerformanceMetrics over its output gives defined
\* mae, rmse and accuracy.
C27_NoDivisionByZero ==
    Fetched("getPredictionHistory") =>
        LET value == resp[1].outcome.value
            metrics == calculatePerformanceMetrics(value)
        IN  /\ \A i \in 1..Len(value) : value[i].errorPercent.den # 0
            /\ Len(value) > 0 =>
                  /\ mae(value).den # 0
                  /\ meanSquaredError(value).den # 0
                  /\ accuracy(value).den # 0
            /\ metrics.mae \in Nat /\ metrics.rmse \in Nat /\ metrics.accuracy \in 0..1000

\* C28: on the page, priceChange is (predicted_price - actual_price) / actual_price * 100
\* when a latest prediction and a non-zero latest actual price exist, and null otherwise
\* (no prediction, no actual price, or an actual price of 0); the trend of the card is
\* 'up' iff priceChange > 0, 'down' iff priceChange < 0, undefined when it is 0 or null.
C28_PriceChangeAndTrend ==
    (resp # None /\ resp[1].op = "BTCOraclePage" /\ ~resp[1].outcome.threw) =>
        LET page == resp[1].outcome.value
            both == /\ page.prediction # None
                    /\ page.latestPrice # None
                    /\ page.latestPrice[1].actual_price \notin {None, Some(0)}
            change == page.priceChange
        IN  /\ both <=> change # None
            /\ both =>
                  LET predicted == page.prediction[1].predicted_price[1]
                      actual == page.latestPrice[1].actual_price[1]
                  IN  /\ change[1].den # 0
                      /\ change[1].num * actual = (predicted - actual) * 100 * change[1].den
            /\ page.trend = Some("up") <=>
                  (change # None /\ change[1].num * change[1].den > 0)
            /\ page.trend = Some("down") <=>
                  (change # None /\ change[1].num * change[1].den < 0)
            /\ page.trend = None <=> (change = None \/ change[1].num = 0)

\* a prediction beside a latest actual price of 0: no variation, no trend
C28_Witness ==
    /\ resp # None
    /\ resp[1].op = "BTCOraclePage"
    /\ ~resp[1].outcome.threw
    /\ resp[1].outcome.value.prediction # None
    /\ resp[1].outcome.value.prediction[1].predicted_price = Some(105)
    /\ resp[1].outcome.value.latestPrice # None
    /\ resp[1].outcome.value.latestPrice[1].actual_price = Some(0)
    /\ resp[1].outcome.value.priceChange = None
    /\ resp[1].outcome.value.trend = None

----------------------------------------------------------------------------
(* The table against the accuracy metric (checked under SpecTable) *)

\* C29: the table and the accuracy metric classify every row alike: getAccuracyStatus
\* labels a row 'Precis' iff calculatePerformanceMetrics counts it as accurate
\* (|errorPercent| < 5); a row with 5 <= |errorPercent| < 10 is 'Acceptable', one with
\* |errorPercent| >= 10 'Imprecis'; so the number of 'Precis' rows in the footer is
\* accuracy * totalPredictions / 100, accuracy taken before rounding.
C29_TableAgreesWithAccuracy ==
    (resp # None /\ resp[1].op = "PredictionHistoryTable") =>
        LET table == resp[1].outcome.value
            n == Len(history)
        IN  /\ Len(table.status) = n
            /\ \A i \in 1..n :
                  LET p == history[i].errorPercent
                  IN  /\ table.status[i] = "Precis" <=> IsAccurate(history[i])
                      /\ (p.den # 0 /\ 5 * Abs(p.den) <= Abs(p.num)
                             /\ Abs(p.num) < 10 * Abs(p.den)) =>
                            table.status[i] = "Acceptable"
                      /\ (p.den # 0 /\ Abs(p.num) >= 10 * Abs(p.den)) =>
                            table.status[i] = "Imprecis"
            /\ table.precise = Cardinality({i \in 1..n : table.status[i] = "Precis"})
            /\ n > 0 => table.precise * 100 * accuracy(history).den
                            = accuracy(history).num * n
            /\ (n > 0 /\ perf # None) =>
                  /\ perf[1].totalPredictions = table.analysed
                  /\ IsRounded(perf[1].accuracy, table.precise * 1000, n)

\* rows at 4.99, 5 and 10 percent: one precise row of three, accuracy 33.3
C29_Witness ==
    /\ resp # None
    /\ resp[1].op = "PredictionHistoryTable"
    /\ resp[1].outcome.value.status = <<"Precis", "Acceptable", "Imprecis">>
    /\ history[2].errorPercent = [num |-> -5, den |-> 1]
    /\ history[3].errorPercent = [num |-> -10, den |-> 1]
    /\ resp[1].outcome.value.precise = 1
    /\ perf # None
    /\ perf[1].accuracy = 333

----------------------------------------------------------------------------
(* Overlapping runs of the write path (checked under SpecRuns) *)

MutableColumns ==
    {"actual_price", "predicted_price", "confidence_score", "prediction_lower_bound",
     "prediction_upper_bound"}

\* the upserts, by their place in the order of arrival, that gave column c of row r
WritesOf(r, c) ==
    {i \in 1..Len(upserts) :
        RowKey(upserts[i].payload) = RowKey(r) /\ c \in DOMAIN upserts[i].payload}

Latest(indices) == CHOOSE i \in indices : \A j \in indices : j <= i

\* C24: two runs of the write path for one symbol and model version that overlap in
\* time, their upserts interleaved in any order, leave exactly one row per (date,
\* symbol, model_version) they touched, and in each such row the columns of an upsert
\* hold the values of the upsert that wrote them last (last writer wins): no
\* interleaving gives a duplicate row or a row that mixes the columns of one upsert from
\* both runs.
C24_LastWriterWins ==
    LET touched == {RowKey(upserts[i].payload) : i \in 1..Len(upserts)}
    IN  /\ Triples(store) = touched
        /\ \A key \in touched : Cardinality({r \in store : RowKey(r) = key}) = 1
        /\ \A r \in store, c \in MutableColumns :
              IF WritesOf(r, c) = {} THEN r[c] = None
              ELSE r[c] = upserts[Latest(WritesOf(r, c))].payload[c]
        /\ \A r \in store :
              r.predicted_price # None =>
                  \E run \in 1..Len(jobs) :
                      /\ r.date = jobs[run].in.date
                      /\ r.predicted_price = Some(jobs[run].in.forecast.predicted_price)
                      /\ r.prediction_lower_bound =
                             Some(jobs[run].in.forecast.prediction_lower_bound)
                      /\ r.prediction_upper_bound =
                             Some(jobs[run].in.forecast.prediction_upper_bound)
                      /\ r.confidence_score = Some(jobs[run].in.forecast.confidence_score)
        /\ (Len(jobs) = 1 /\ jobs[1].done = Len(writerPayloads(jobs[1].in))) =>
              store = PredictionWriter({}, jobs[1].in)

\* both runs for date 2 with different forecasts and prices, the second run's two
\* upserts falling between those of the first
C24_Witness ==
    /\ Len(jobs) = 2
    /\ jobs[1].in.date = 2 /\ jobs[2].in.date = 2
    /\ jobs[1].in.forecast.predicted_price = 95 /\ jobs[2].in.forecast.predicted_price = 105
    /\ jobs[1].in.actual = Some(100) /\ jobs[2].in.actual = Some(102)
    /\ Len(upserts) = 4
    /\ [i \in 1..4 |-> upserts[i].run] = <<1, 2, 2, 1>>
    /\ Cardinality(store) = 2
    /\ \E r \in store : r.date = 1 /\ r.actual_price = Some(102) /\ r.predicted_price = None
    /\ \E r \in store : r.date = 2 /\ r.predicted_price = Some(95)
                                     /\ r.prediction_lower_bound = Some(90)

----------------------------------------------------------------------------
(* The browser client (checked under SpecClient) *)

\* C30: createBrowserClient is a singleton: over any sequence of calls at most one
\* client is created and every call that succeeds returns that instance; in the variants
\* that validate the environment, a call made with no instance cached while
\* NEXT_PUBLIC_SUPABASE_URL or NEXT_PUBLIC_SUPABASE_ANON_KEY is missing throws and leaves
\* the cached instance unset, and a later call with both present creates the client.
C30_BrowserClientIsSingleton ==
    /\ Len(clients) <= 1
    /\ browserClient # None <=> clients # <<>>
    /\ browserClient # None => clients = <<browserClient[1]>>
    /\ \A i \in 1..Len(calls) :
          /\ ~calls[i].outcome.threw => clients = <<calls[i].outcome.value>>
          /\ calls[i].cached # None =>
                calls[i].outcome = Returned(calls[i].cached[1])
          /\ (loaded.validates /\ calls[i].cached = None) =>
                IF Truthy(calls[i].env.url) /\ Truthy(calls[i].env.key)
                    THEN /\ ~calls[i].outcome.threw
                         /\ calls[i].outcome.value.supabaseUrl = calls[i].env.url
                         /\ calls[i].outcome.value.supabaseKey = calls[i].env.key
                    ELSE /\ calls[i].outcome.threw
                         /\ i < Len(calls) => calls[i + 1].cached = None
                         /\ i = Len(calls) => browserClient = None

\* a call that throws for want of the key, a call that creates the client once the key
\* is set, and a call that gets the same instance although the URL is gone again
C30_Witness ==
    /\ loaded.validates
    /\ Len(calls) = 3
    /\ calls[1].env.key = None /\ calls[1].outcome.threw
    /\ calls[2].cached = None /\ ~calls[2].outcome.threw
    /\ calls[3].env.url = None
    /\ calls[3].outcome = calls[2].outcome
    /\ clients = <<calls[2].outcome.value>>

====
